---- MODULE Spec2Model ----
(***************************************************************************)
(* Model of components/ac_log/src/lib.rs: the log-forwarding bridge.       *)
(*                                                                         *)
(* Threads: the host (lifecycle) thread that calls ac_log_adapter_create   *)
(* and ac_log_adapter_destroy, the producer threads that log through the   *)
(* process-wide logger, and one drain thread per LogAdapterState::init.    *)
(* A step is one access to shared state (the AtomicBool `stopped`, the     *)
(* record channel, the done channel, the global logger); the few steps     *)
(* that group several accesses say why no other thread can tell.           *)
(***************************************************************************)
EXTENDS Integers, Sequences, FiniteSets, TLC

\* ---------------------------------------------------------------- bounds
NumProducers == 1
MaxLogs == 2
MaxBridges == 2

Producers == 1..NumProducers
Bridges == 1..MaxBridges
\* The thread that runs init logs "ac_log adapter initialized!" itself.
InitSrc == 0

VARIABLES
    logger,        \* the process-wide logger: 0 = none, b = the LogSink of bridge b
    lifePc,        \* per bridge: where the host thread is in create / destroy
    procAborted,   \* abort_on_panic terminated the process
    stopped,       \* per bridge: the shared AtomicBool
    queue,         \* per bridge: the unbounded record channel's contents
    doneBuf,       \* per bridge: messages in the bounded(1) done channel
    drainPc,       \* per bridge: position of the drain thread
    drainRec,      \* per bridge: `record` of the select branch, <<r>> = Ok(r), <<>> = Err
    delivered,     \* per bridge: records the callback was invoked with, in order
    arrived,       \* per bridge: records pushed on the record channel, in order
    lateCalls,     \* per bridge: callback invocations started while stopped was true
    prodPc,        \* per producer: position inside LogSink::log
    issued,        \* per producer: log calls made so far
    encIn,         \* the log::Record handed to LogRecord::from
    encOut         \* <<>> before the conversion, <<the LogRecord>> after it

vars == <<logger, lifePc, procAborted, stopped, queue, doneBuf, drainPc, drainRec,
          delivered, arrived, lateCalls, prodPc, issued, encIn, encOut>>

lifeVars == <<logger, lifePc, procAborted>>
drainVars == <<drainPc, drainRec, delivered, lateCalls>>
prodVars == <<prodPc, issued>>
encVars == <<encIn, encOut>>

\* ------------------------------------------------------------- channels
\* The drain thread's closure owns record_recv and done_recv; both are
\* dropped when the closure returns or unwinds.
DrainLive(b) == drainPc[b] \notin {"none", "STOPPED", "PANICKED"}

\* record_sender lives in the LogSink.  set_boxed_logger leaks the sink of the
\* bridge it installs; it drops the sink of a bridge it rejects.
RecordSenderAlive(b) == lifePc[b] # "failed"

\* done_sender is a field of LogAdapterState: dropped when init unwinds or
\* when Drop has finished.
DoneSenderAlive(b) == lifePc[b] \notin {"failed", "returned"}

\* ----------------------------------------------------------------- Init
\* The process before the first create.
BridgeInit ==
    /\ logger = 0
    /\ lifePc = [b \in Bridges |-> "nocreate"]
    /\ procAborted = FALSE
    /\ stopped = [b \in Bridges |-> FALSE]
    /\ queue = [b \in Bridges |-> <<>>]
    /\ doneBuf = [b \in Bridges |-> 0]
    /\ drainPc = [b \in Bridges |-> "none"]
    /\ drainRec = [b \in Bridges |-> <<>>]
    /\ delivered = [b \in Bridges |-> <<>>]
    /\ arrived = [b \in Bridges |-> <<>>]
    /\ lateCalls = [b \in Bridges |-> 0]
    /\ prodPc = [p \in Producers |-> "idle"]
    /\ issued = [p \in Producers |-> 0]

\* The bridge model does not look inside the records: the event is fixed.
NoEvent == [level |-> "Info", mp |-> <<>>, file |-> <<>>, line |-> <<>>, args |-> <<>>]

Init ==
    /\ BridgeInit
    /\ encIn = NoEvent
    /\ encOut = <<>>

\* ------------------------------------------------------------- the Sink
\* LogSink::log, line 104: the load of `stopped`.
SinkStopped(b) == stopped[b]

\* A channel of capacity 1: no room while a record is queued.
SendOk_Bounded(b) == DrainLive(b) /\ Len(queue[b]) < 1

\* LogSink::log, line 111: sender.send(record.into()) on the unbounded
\* channel.  It never waits; it fails only when the receiver is gone.
SendOk(b) == DrainLive(b)

\* The record as it enters the channel.  `late` remembers whether the flag
\* was already set at the moment of the push.
MkRecord(src, n, b) == [src |-> src, seq |-> n, late |-> stopped[b]]

\* A channel that hands out the newest message first.
Push_Front(b, r) ==
    /\ queue' = [queue EXCEPT ![b] = <<r>> \o @]
    /\ arrived' = [arrived EXCEPT ![b] = Append(@, r)]

Push(b, r) ==
    /\ queue' = [queue EXCEPT ![b] = Append(@, r)]
    /\ arrived' = [arrived EXCEPT ![b] = Append(@, r)]

\* Log calls made so far by the producer threads together.
RECURSIVE IssuedUpTo(_)
IssuedUpTo(n) == IF n = 0 THEN 0 ELSE issued[n] + IssuedUpTo(n - 1)
TotalIssued == IssuedUpTo(NumProducers)

\* log without the early return of lines 104-107.
LogCall_NoCheck(p) ==
    /\ ~procAborted
    /\ logger # 0
    /\ prodPc[p] = "idle"
    /\ TotalIssued < MaxLogs
    /\ issued' = [issued EXCEPT ![p] = @ + 1]
    /\ prodPc' = [prodPc EXCEPT ![p] = "send"]
    /\ UNCHANGED <<lifeVars, stopped, queue, doneBuf, drainVars, arrived>>
    /\ UNCHANGED encVars

\* A producer thread calls log: the flag check of lines 104-107.
LogCall(p) ==
    /\ ~procAborted
    /\ logger # 0
    /\ prodPc[p] = "idle"
    /\ TotalIssued < MaxLogs
    /\ issued' = [issued EXCEPT ![p] = @ + 1]
    /\ prodPc' = [prodPc EXCEPT ![p] = IF SinkStopped(logger) THEN "idle" ELSE "send"]
    /\ UNCHANGED <<lifeVars, stopped, queue, doneBuf, drainVars, arrived>>
    /\ UNCHANGED encVars

\* A Sink that calls the callback itself instead of queueing the record.
LogSend_Direct(p) ==
    /\ ~procAborted
    /\ prodPc[p] = "send"
    /\ SendOk(logger)
    /\ delivered' = [delivered EXCEPT ![logger] = Append(@, MkRecord(p, issued[p], logger))]
    /\ prodPc' = [prodPc EXCEPT ![p] = "idle"]
    /\ UNCHANGED <<lifeVars, stopped, queue, doneBuf, drainPc, drainRec, lateCalls,
                   arrived, issued>>
    /\ UNCHANGED encVars

\* Line 111 when the send succeeds.
LogSend(p) ==
    /\ ~procAborted
    /\ prodPc[p] = "send"
    /\ SendOk(logger)
    /\ Push(logger, MkRecord(p, issued[p], logger))
    /\ prodPc' = [prodPc EXCEPT ![p] = "idle"]
    /\ UNCHANGED <<lifeVars, stopped, doneBuf, drainVars, issued>>
    /\ UNCHANGED encVars

\* Line 111 when the send returns Err: unwrap panics in the producer thread.
LogSendFail(p) ==
    /\ ~procAborted
    /\ prodPc[p] = "send"
    /\ ~SendOk(logger)
    /\ prodPc' = [prodPc EXCEPT ![p] = "panicked"]
    /\ UNCHANGED <<lifeVars, stopped, queue, doneBuf, drainVars, arrived,
                   issued>>
    /\ UNCHANGED encVars

\* LogSink::enabled, lines 95-98: the value returned, one atomic load.
EnabledResult(b) == ~stopped[b]

\* A call of enabled changes nothing.
EnabledCall ==
    /\ ~procAborted
    /\ logger # 0
    /\ UNCHANGED vars

\* LogSink::flush, line 100: empty body.
Flush ==
    /\ ~procAborted
    /\ logger # 0
    /\ UNCHANGED vars

\* ------------------------------------------------------ the drain thread
\* A receive that takes the newest message instead of the oldest.
DrainSelectRecord_FromTail(b) ==
    /\ ~procAborted
    /\ drainPc[b] = "select"
    /\ queue[b] # <<>>
    /\ drainRec' = [drainRec EXCEPT ![b] = <<queue[b][Len(queue[b])]>>]
    /\ queue' = [queue EXCEPT ![b] = SubSeq(@, 1, Len(@) - 1)]
    /\ drainPc' = [drainPc EXCEPT ![b] = "check"]
    /\ UNCHANGED <<lifeVars, stopped, doneBuf, delivered, arrived, lateCalls, prodVars>>
    /\ UNCHANGED encVars

\* A receive that leaves the message in the channel.
DrainSelectRecord_Peek(b) ==
    /\ ~procAborted
    /\ drainPc[b] = "select"
    /\ queue[b] # <<>>
    /\ drainRec' = [drainRec EXCEPT ![b] = <<Head(queue[b])>>]
    /\ drainPc' = [drainPc EXCEPT ![b] = "check"]
    /\ UNCHANGED <<lifeVars, stopped, queue, doneBuf, delivered, arrived, lateCalls, prodVars>>
    /\ UNCHANGED encVars

\* select!, recv(record_recv) ready with a message (line 128).
DrainSelectRecord(b) ==
    /\ ~procAborted
    /\ drainPc[b] = "select"
    /\ queue[b] # <<>>
    /\ drainRec' = [drainRec EXCEPT ![b] = <<Head(queue[b])>>]
    /\ queue' = [queue EXCEPT ![b] = Tail(@)]
    /\ drainPc' = [drainPc EXCEPT ![b] = "check"]
    /\ UNCHANGED <<lifeVars, stopped, doneBuf, delivered, arrived, lateCalls, prodVars>>
    /\ UNCHANGED encVars

\* select!, recv(record_recv) ready because every sender is gone and the
\* channel is empty: `record` is Err (line 128).
DrainSelectClosed(b) ==
    /\ ~procAborted
    /\ drainPc[b] = "select"
    /\ queue[b] = <<>>
    /\ ~RecordSenderAlive(b)
    /\ drainRec' = [drainRec EXCEPT ![b] = <<>>]
    /\ drainPc' = [drainPc EXCEPT ![b] = "checkErr"]
    /\ UNCHANGED <<lifeVars, stopped, queue, doneBuf, delivered, arrived, lateCalls, prodVars>>
    /\ UNCHANGED encVars

\* A drain thread that waits on the record channel only.
DrainSelectDone_Never(b) ==
    /\ FALSE
    /\ UNCHANGED vars

\* select!, recv(done_recv) ready, with the notification or because
\* done_sender is gone (lines 144-146): return.
DrainSelectDone(b) ==
    /\ ~procAborted
    /\ drainPc[b] = "select"
    /\ (doneBuf[b] > 0 \/ ~DoneSenderAlive(b))
    /\ doneBuf' = [doneBuf EXCEPT ![b] = 0]
    /\ drainPc' = [drainPc EXCEPT ![b] = "STOPPED"]
    /\ UNCHANGED <<lifeVars, stopped, queue, drainRec, delivered, arrived, lateCalls, prodVars>>
    /\ UNCHANGED encVars

\* The record branch without the flag check of lines 129-131.
DrainCheck_NoFlagCheck(b) ==
    /\ ~procAborted
    /\ drainPc[b] = "check"
    /\ drainPc' = [drainPc EXCEPT ![b] = "call"]
    /\ UNCHANGED <<lifeVars, stopped, queue, doneBuf, drainRec, delivered, arrived,
                   lateCalls, prodVars>>
    /\ UNCHANGED encVars

\* Line 129 with an Ok record: stopped.load(); return if set, otherwise go
\* on to the callback.  A returning thread drops the record it holds.
DrainCheck(b) ==
    /\ ~procAborted
    /\ drainPc[b] = "check"
    /\ IF stopped[b]
         THEN /\ drainPc' = [drainPc EXCEPT ![b] = "STOPPED"]
              /\ drainRec' = [drainRec EXCEPT ![b] = <<>>]
         ELSE /\ drainPc' = [drainPc EXCEPT ![b] = "call"]
              /\ UNCHANGED drainRec
    /\ UNCHANGED <<lifeVars, stopped, queue, doneBuf, delivered, arrived, lateCalls, prodVars>>
    /\ UNCHANGED encVars

\* Lines 129 and 138-141 with an Err record: stopped.load(); return if set,
\* otherwise "Channel closed": stopped.store(true); return.  The load and the
\* store are one step: the only other store to this flag also writes true,
\* so no thread can tell the state between them from the state before.
DrainChannelClosed(b) ==
    /\ ~procAborted
    /\ drainPc[b] = "checkErr"
    /\ stopped' = [stopped EXCEPT ![b] = TRUE]
    /\ drainPc' = [drainPc EXCEPT ![b] = "STOPPED"]
    /\ UNCHANGED <<lifeVars, queue, doneBuf, drainRec, delivered, arrived, lateCalls, prodVars>>
    /\ UNCHANGED encVars

\* Lines 132-137: the callback is entered with the dequeued record.
DrainInvoke(b) ==
    /\ ~procAborted
    /\ drainPc[b] = "call"
    /\ delivered' = [delivered EXCEPT ![b] = Append(@, drainRec[b][1])]
    /\ lateCalls' = [lateCalls EXCEPT ![b] = IF stopped[b] THEN @ + 1 ELSE @]
    /\ drainPc' = [drainPc EXCEPT ![b] = "incallback"]
    /\ UNCHANGED <<lifeVars, stopped, queue, doneBuf, drainRec, arrived, prodVars>>
    /\ UNCHANGED encVars

\* The callback returns; the record goes out of scope at line 143.
CallbackReturn(b) ==
    /\ ~procAborted
    /\ drainPc[b] = "incallback"
    /\ drainRec' = [drainRec EXCEPT ![b] = <<>>]
    /\ drainPc' = [drainPc EXCEPT ![b] = "recheck"]
    /\ UNCHANGED <<lifeVars, stopped, queue, doneBuf, delivered, arrived, lateCalls, prodVars>>
    /\ UNCHANGED encVars

\* The callback panics: the drain thread unwinds and terminates abnormally.
CallbackPanic(b) ==
    /\ ~procAborted
    /\ drainPc[b] = "incallback"
    /\ drainRec' = [drainRec EXCEPT ![b] = <<>>]
    /\ drainPc' = [drainPc EXCEPT ![b] = "PANICKED"]
    /\ UNCHANGED <<lifeVars, stopped, queue, doneBuf, delivered, arrived, lateCalls, prodVars>>
    /\ UNCHANGED encVars

\* A re-check with the test inverted: the thread leaves while not stopped.
DrainRecheck_Inverted(b) ==
    /\ ~procAborted
    /\ drainPc[b] = "recheck"
    /\ drainPc' = [drainPc EXCEPT ![b] = IF stopped[b] THEN "select" ELSE "STOPPED"]
    /\ UNCHANGED <<lifeVars, stopped, queue, doneBuf, drainRec, delivered, arrived,
                   lateCalls, prodVars>>
    /\ UNCHANGED encVars

\* Lines 149-152: the load of `stopped` after the select.
DrainRecheck(b) ==
    /\ ~procAborted
    /\ drainPc[b] = "recheck"
    /\ drainPc' = [drainPc EXCEPT ![b] = IF stopped[b] THEN "STOPPED" ELSE "select"]
    /\ UNCHANGED <<lifeVars, stopped, queue, doneBuf, drainRec, delivered, arrived,
                   lateCalls, prodVars>>
    /\ UNCHANGED encVars

\* ------------------------------------------------- the lifecycle manager
\* An init whose sink silently replaces the logger already installed.
Create_Replaces(b) ==
    /\ ~procAborted
    /\ lifePc[b] = "nocreate"
    /\ b > 1 => lifePc[b - 1] # "nocreate"
    /\ stopped' = [stopped EXCEPT ![b] = FALSE]
    /\ drainPc' = [drainPc EXCEPT ![b] = "select"]
    /\ logger' = b
    /\ lifePc' = [lifePc EXCEPT ![b] = "initlog"]
    /\ UNCHANGED <<procAborted, queue, doneBuf, drainRec, delivered, arrived, lateCalls,
                   prodVars>>
    /\ UNCHANGED encVars

\* ac_log_adapter_create -> LogAdapterState::init, lines 117-162: the flag,
\* the two channels, the spawned thread, and set_boxed_logger.  When a logger
\* is already installed set_boxed_logger drops the sink and returns Err, the
\* unwrap panics, init unwinds (dropping done_sender and the join handle) and
\* call_with_output reports the error: no handle is returned.
Create(b) ==
    /\ ~procAborted
    /\ lifePc[b] = "nocreate"
    /\ b > 1 => lifePc[b - 1] # "nocreate"
    /\ stopped' = [stopped EXCEPT ![b] = FALSE]
    /\ drainPc' = [drainPc EXCEPT ![b] = "select"]
    /\ IF logger = 0
         THEN /\ logger' = b
              /\ lifePc' = [lifePc EXCEPT ![b] = "initlog"]
         ELSE /\ UNCHANGED logger
              /\ lifePc' = [lifePc EXCEPT ![b] = "failed"]
    /\ UNCHANGED <<procAborted, queue, doneBuf, drainRec, delivered, arrived, lateCalls,
                   prodVars>>
    /\ UNCHANGED encVars

\* Line 163, log::info!("ac_log adapter initialized!") on the creating
\* thread, through LogSink::log of the installed logger; then lines 164-168
\* return the handle.  Nothing can have set the flag or ended the drain
\* thread before the handle exists, so the check and the send are one step.
InitLog(b) ==
    /\ ~procAborted
    /\ lifePc[b] = "initlog"
    /\ IF SinkStopped(logger)
         THEN UNCHANGED <<queue, arrived>>
         ELSE /\ SendOk(logger)
              /\ Push(logger, MkRecord(InitSrc, 1, logger))
    /\ lifePc' = [lifePc EXCEPT ![b] = "live"]
    /\ UNCHANGED <<logger, procAborted, stopped, doneBuf, drainVars, prodVars>>
    /\ UNCHANGED encVars

\* LogAdapterState::stop, line 171: empty body.
Stop(b) ==
    /\ ~procAborted
    /\ lifePc[b] = "live"
    /\ UNCHANGED vars

\* ac_log_adapter_destroy -> Drop, line 176: stopped.store(true).
DestroyStore(b) ==
    /\ ~procAborted
    /\ lifePc[b] = "live"
    /\ stopped' = [stopped EXCEPT ![b] = TRUE]
    /\ lifePc' = [lifePc EXCEPT ![b] = "send"]
    /\ UNCHANGED <<logger, procAborted, queue, doneBuf, drainVars, arrived, prodVars>>
    /\ UNCHANGED encVars

\* Line 177, done_sender.send(()) on the bounded(1) channel while done_recv
\* is alive: waits for room, then succeeds.
DestroySend(b) ==
    /\ ~procAborted
    /\ lifePc[b] = "send"
    /\ DrainLive(b)
    /\ doneBuf[b] < 1
    /\ doneBuf' = [doneBuf EXCEPT ![b] = @ + 1]
    /\ lifePc' = [lifePc EXCEPT ![b] = "join"]
    /\ UNCHANGED <<logger, procAborted, stopped, queue, drainVars, arrived, prodVars>>
    /\ UNCHANGED encVars

\* Line 177 when done_recv is gone: send returns Err, unwrap panics inside
\* abort_on_panic::call_with_output (lines 201-205): the process aborts.
DestroySendFail(b) ==
    /\ ~procAborted
    /\ lifePc[b] = "send"
    /\ ~DrainLive(b)
    /\ procAborted' = TRUE
    /\ lifePc' = [lifePc EXCEPT ![b] = "aborted"]
    /\ UNCHANGED <<logger, stopped, queue, doneBuf, drainVars, arrived, prodVars>>
    /\ UNCHANGED encVars

\* Drop without the join: returns while the drain thread may still run.
DestroyJoin_NoWait(b) ==
    /\ ~procAborted
    /\ lifePc[b] = "join"
    /\ lifePc' = [lifePc EXCEPT ![b] = "returned"]
    /\ UNCHANGED <<logger, procAborted, stopped, queue, doneBuf, drainVars, arrived, prodVars>>
    /\ UNCHANGED encVars

\* Drop that switches the flag back off once the thread is joined.
DestroyJoin_ResetsFlag(b) ==
    /\ ~procAborted
    /\ lifePc[b] = "join"
    /\ drainPc[b] = "STOPPED"
    /\ stopped' = [stopped EXCEPT ![b] = FALSE]
    /\ lifePc' = [lifePc EXCEPT ![b] = "returned"]
    /\ UNCHANGED <<logger, procAborted, queue, doneBuf, drainVars, arrived, prodVars>>
    /\ UNCHANGED encVars

\* Drop that discards the result of join instead of unwrapping it.
DestroyJoin_IgnoresPanic(b) ==
    /\ ~procAborted
    /\ lifePc[b] = "join"
    /\ drainPc[b] \in {"STOPPED", "PANICKED"}
    /\ lifePc' = [lifePc EXCEPT ![b] = "returned"]
    /\ UNCHANGED <<logger, procAborted, stopped, queue, doneBuf, drainVars, arrived, prodVars>>
    /\ UNCHANGED encVars

\* Drop that also takes the Sink out of the process-wide logger slot.
DestroyJoin_Uninstalls(b) ==
    /\ ~procAborted
    /\ lifePc[b] = "join"
    /\ drainPc[b] = "STOPPED"
    /\ lifePc' = [lifePc EXCEPT ![b] = "returned"]
    /\ logger' = 0
    /\ UNCHANGED <<procAborted, stopped, queue, doneBuf, drainVars, arrived, prodVars>>
    /\ UNCHANGED encVars

\* Lines 180-182: join returns Ok once the drain thread has returned; the
\* fields of the state (done_sender among them) are dropped afterwards.
DestroyJoin(b) ==
    /\ ~procAborted
    /\ lifePc[b] = "join"
    /\ drainPc[b] = "STOPPED"
    /\ lifePc' = [lifePc EXCEPT ![b] = "returned"]
    /\ UNCHANGED <<logger, procAborted, stopped, queue, doneBuf, drainVars, arrived, prodVars>>
    /\ UNCHANGED encVars

\* Lines 180-182 when the drain thread panicked: join returns Err, unwrap
\* panics inside abort_on_panic: the process aborts.
DestroyJoinPanic(b) ==
    /\ ~procAborted
    /\ lifePc[b] = "join"
    /\ drainPc[b] = "PANICKED"
    /\ procAborted' = TRUE
    /\ lifePc' = [lifePc EXCEPT ![b] = "aborted"]
    /\ UNCHANGED <<logger, stopped, queue, doneBuf, drainVars, arrived, prodVars>>
    /\ UNCHANGED encVars

\* ------------------------------------------------------- specifications
DrainStep(b) ==
    \/ DrainSelectRecord(b)
    \/ DrainSelectClosed(b)
    \/ DrainSelectDone(b)
    \/ DrainCheck(b)
    \/ DrainChannelClosed(b)
    \/ DrainInvoke(b)
    \/ DrainRecheck(b)

Next ==
    \/ \E b \in Bridges : Create(b)
    \/ \E b \in Bridges : InitLog(b)
    \/ \E b \in Bridges : Stop(b)
    \/ \E b \in Bridges : DestroyStore(b)
    \/ \E b \in Bridges : DestroySend(b)
    \/ \E b \in Bridges : DestroySendFail(b)
    \/ \E b \in Bridges : DestroyJoin(b)
    \/ \E b \in Bridges : DestroyJoinPanic(b)
    \/ \E p \in Producers : LogCall(p)
    \/ \E p \in Producers : LogSend(p)
    \/ \E p \in Producers : LogSendFail(p)
    \/ EnabledCall
    \/ Flush
    \/ \E b \in Bridges : DrainStep(b)
    \/ \E b \in Bridges : CallbackReturn(b)
    \/ \E b \in Bridges : CallbackPanic(b)

Spec == Init /\ [][Next]_vars

\* The callback always returns and every thread that can run does run.
NextLive ==
    \/ \E b \in Bridges : Create(b)
    \/ \E b \in Bridges : InitLog(b)
    \/ \E b \in Bridges : Stop(b)
    \/ \E b \in Bridges : DestroyStore(b)
    \/ \E b \in Bridges : DestroySend(b)
    \/ \E b \in Bridges : DestroySendFail(b)
    \/ \E b \in Bridges : DestroyJoin(b)
    \/ \E p \in Producers : LogCall(p)
    \/ \E p \in Producers : LogSend(p)
    \/ \E p \in Producers : LogSendFail(p)
    \/ EnabledCall
    \/ Flush
    \/ \E b \in Bridges : DrainStep(b)
    \/ \E b \in Bridges : CallbackReturn(b)

DestroyStep(b) == DestroySend(b) \/ DestroySendFail(b) \/ DestroyJoin(b)

LiveSpec ==
    /\ Init
    /\ [][NextLive]_vars
    /\ \A b \in Bridges : WF_vars(DrainStep(b) \/ CallbackReturn(b))
    /\ \A b \in Bridges : WF_vars(DestroyStep(b))

TypeOK ==
    /\ logger \in 0..MaxBridges
    /\ procAborted \in BOOLEAN
    /\ \A b \in Bridges : doneBuf[b] \in 0..1 /\ Len(drainRec[b]) <= 1

\* ------------------------------------------------------ record encoder
\* LogRecord::from(&log::Record) is a pure function.  Strings are byte
\* sequences; an Option or a Result is a sequence of length at most one
\* (<<>> is None / Err, <<v>> is Some(v) / Ok(v)).
MaxStrLen == 2     \* longest module path and longest args text
MaxFileLen == 1    \* longest file name

Nul == 0
QMark == 63
AtSign == 64
Colon == 58
Space == 32
Digit0 == 48

\* The terminator, the placeholder and an ordinary byte ('a').
Alphabet == {Nul, QMark, 97}
LineNumbers == {0, 7, 10}
Levels == {"Trace", "Debug", "Info", "Warn", "Error"}

StringsUpTo(n) == UNION {[1..k -> Alphabet] : k \in 0..n}
OptionOf(S) == {<<>>} \cup {<<x>> : x \in S}

\* The log::Record values the conversion is applied to.
Events ==
    [level : Levels,
     mp    : OptionOf(StringsUpTo(MaxStrLen)),
     file  : OptionOf(StringsUpTo(MaxFileLen)),
     line  : OptionOf(LineNumbers),
     args  : StringsUpTo(MaxStrLen)]

VERBOSE == 2
DEBUG == 3
INFO == 4
WARN == 5
ERROR == 6

\* impl From<log::Level> for LogLevel
LevelFrom(l) ==
    CASE l = "Trace" -> VERBOSE
      [] l = "Debug" -> DEBUG
      [] l = "Info"  -> INFO
      [] l = "Warn"  -> WARN
      [] l = "Error" -> ERROR

HasNul(s) == \E i \in 1..Len(s) : s[i] = Nul

\* CString::new: Err when the bytes hold an interior 0 byte.
CStringNew(bytes) == IF HasNul(bytes) THEN <<>> ELSE <<bytes>>

\* Mutant: only the first 0 byte is replaced.
StringToCStringLossy_FirstOnly(s) ==
    CStringNew([i \in 1..Len(s) |->
        IF s[i] = Nul /\ (\A j \in 1..(i - 1) : s[j] # Nul) THEN QMark ELSE s[i]])

\* string_to_cstring_lossy: every 0 byte becomes b'?', then CString::new.
\* The result is the Result that `expect` unwraps: <<>> is its panic.
StringToCStringLossy(s) ==
    CStringNew([i \in 1..Len(s) |-> IF s[i] = Nul THEN QMark ELSE s[i]])

\* Display of an unsigned integer: its decimal digits.
RECURSIVE Decimal(_)
Decimal(n) ==
    IF n < 10 THEN <<Digit0 + n>>
    ELSE Append(Decimal(n \div 10), Digit0 + (n % 10))

\* Mutant: a line without a file is still printed.
FormatMessage_LineWithoutFile(line, file, args) ==
    CASE line # <<>> /\ file # <<>> ->
             file[1] \o <<AtSign>> \o Decimal(line[1]) \o <<Colon, Space>> \o args
      [] line = <<>> /\ file # <<>> ->
             file[1] \o <<Colon, Space>> \o args
      [] line # <<>> /\ file = <<>> ->
             <<AtSign>> \o Decimal(line[1]) \o <<Colon, Space>> \o args
      [] OTHER -> args

\* The match on (r.line(), r.file()).
FormatMessage(line, file, args) ==
    CASE line # <<>> /\ file # <<>> ->
             file[1] \o <<AtSign>> \o Decimal(line[1]) \o <<Colon, Space>> \o args
      [] line = <<>> /\ file # <<>> ->
             file[1] \o <<Colon, Space>> \o args
      [] file = <<>> -> args

\* module_path().and_then(|mp| CString::new(mp.to_owned()).ok())
TagOf(mp) == IF mp = <<>> THEN <<>> ELSE CStringNew(mp[1])

\* LogRecord::from.  message = <<>> stands for the panic of `expect`.
FromRecord(r) ==
    [level   |-> LevelFrom(r.level),
     tag     |-> TagOf(r.mp),
     message |-> StringToCStringLossy(FormatMessage(r.line, r.file, r.args))]

\* One conversion of one log::Record.
EncInit ==
    /\ BridgeInit
    /\ encIn \in Events
    /\ encOut = <<>>

Encode ==
    /\ encOut = <<>>
    /\ encOut' = <<FromRecord(encIn)>>
    /\ UNCHANGED <<encIn, lifeVars, stopped, queue, doneBuf, drainVars, arrived, prodVars>>

EncNext == Encode

EncSpec == EncInit /\ [][EncNext]_vars

\* ---------------------------------------------------------------- claims
\* Records of bridge b that left the channel: arrived but no longer queued.
Dequeued(b) == Len(arrived[b]) - Len(queue[b])

\* Log calls of producer threads that returned at the flag check.
ProducerRecords(b) == {i \in 1..Len(arrived[b]) : arrived[b][i].src # InitSrc}
InFlight == {p \in Producers : prodPc[p] \in {"send", "panicked"}}
DroppedCalls == TotalIssued - Cardinality(ProducerRecords(1)) - Cardinality(InFlight)

\* C1 (as stated): once destroy has set the shutdown flag, no callback
\* invocation starts afterwards.
C1_NoCallbackStartsAfterFlag == \A b \in Bridges : lateCalls[b] = 0

\* C1 (amended): once the flag is set, a callback invocation can start only
\* if the drain thread had already passed its flag check of line 129 (it is
\* between the check and the call); it does not pass the check again, so at
\* most one invocation starts after the flag is set.
C1_AtMostOneCallbackAfterFlag ==
    /\ [](\A b \in Bridges : lateCalls[b] <= 1)
    /\ [][\A b \in Bridges :
            (stopped[b] /\ drainPc[b] # "call")
                => (delivered'[b] = delivered[b] /\ drainPc'[b] # "call")]_vars

C1_Witness == lateCalls[1] = 1 /\ lifePc[1] = "returned"

\* C2: after destroy has returned normally the drain thread is STOPPED, no
\* callback invocation is in progress, and none occurs again.
C2_NoCallbackAfterDestroyReturns ==
    /\ [](\A b \in Bridges : lifePc[b] = "returned" => drainPc[b] = "STOPPED")
    /\ [][\A b \in Bridges :
            lifePc[b] = "returned"
                => (delivered'[b] = delivered[b] /\ drainPc'[b] = "STOPPED")]_vars

C2_Witness ==
    /\ lifePc[1] = "returned"
    /\ queue[1] # <<>>
    /\ \E p \in Producers : prodPc[p] = "send"

\* C3: provided the callback never panics, a log call that passed the flag
\* check never finds the record channel disconnected (its send never fails).
C3_LogSendNeverFails ==
    (\A b \in Bridges : drainPc[b] # "PANICKED")
        => (\A p \in Producers : prodPc[p] # "panicked")

\* C4: a record pushed after the flag was set is never delivered: the drain
\* thread that dequeues it never reaches the callback with it.
C4_LateRecordNeverDelivered ==
    \A b \in Bridges :
        /\ \A i \in 1..Len(delivered[b]) : ~delivered[b][i].late
        /\ drainPc[b] \in {"call", "incallback"} => ~drainRec[b][1].late

C4_Witness ==
    /\ drainPc[1] = "STOPPED"
    /\ \E i \in 1..Dequeued(1) : arrived[1][i].late

\* C5: with a callback that returns and fair scheduling, once destroy has set
\* the flag and sent the shutdown notification the drain thread reaches
\* STOPPED and destroy returns, also when the drain thread is blocked in the
\* select with no record to receive.
C5_ShutdownObserved ==
    (logger # 0 /\ lifePc[logger] = "join")
        ~> (logger # 0 /\ drainPc[logger] = "STOPPED" /\ lifePc[logger] = "returned")

C5_Witness ==
    /\ lifePc[1] = "join"
    /\ drainPc[1] = "select"
    /\ queue[1] = <<>>
    /\ TotalIssued = 0

\* C6: a producer that is about to push is never made to wait: whenever the
\* drain thread is alive (blocked in the select, inside the callback, or
\* behind any number of queued records) the push step is enabled.
C6_NoBlock ==
    \A p \in Producers :
        (prodPc[p] = "send" /\ DrainLive(logger)) => ENABLED LogSend(p)

C6_Witness ==
    /\ drainPc[1] = "incallback"
    /\ Len(queue[1]) >= 1
    /\ \E p \in Producers : prodPc[p] = "send"

\* C7: the records of one producer thread are delivered in the order in
\* which that thread issued them.
C7_PerProducerOrder ==
    \A b \in Bridges : \A i, j \in 1..Len(delivered[b]) :
        (i < j /\ delivered[b][i].src = delivered[b][j].src)
            => delivered[b][i].seq < delivered[b][j].seq

\* Two records of one producer thread delivered, with a record that another
\* thread pushed between them.
C7_Witness ==
    \E i, j, k \in 1..Len(delivered[1]) :
        /\ i < k /\ k < j
        /\ delivered[1][i].src = delivered[1][j].src
        /\ delivered[1][i].src \in Producers
        /\ delivered[1][k].src # delivered[1][i].src

\* C8: in every state in which the flag is set a call of enabled returns
\* false, and a call of log made in such a state returns without pushing and
\* without changing anything but the count of calls made.
C8_IdempotentSuppression ==
    /\ []((logger # 0 /\ stopped[logger]) => EnabledResult(logger) = FALSE)
    /\ [][(logger # 0 /\ stopped[logger]) =>
            \A p \in Producers :
                LogCall(p) => UNCHANGED <<lifeVars, stopped, queue, doneBuf, drainVars,
                                          arrived, prodPc>>]_vars

C8_Witness ==
    /\ stopped[1]
    /\ DroppedCalls >= 2

\* C9: the flag is false when init creates it, never goes from true to
\* false, and is written only by destroy and by the drain thread's
\* channel-closed branch.
C9_FlagMonotonic ==
    /\ [](\A b \in Bridges : lifePc[b] = "nocreate" => ~stopped[b])
    /\ [][\A b \in Bridges :
            /\ Create(b) => ~stopped'[b]
            /\ stopped[b] => stopped'[b]
            /\ stopped'[b] # stopped[b] => (DestroyStore(b) \/ DrainChannelClosed(b))]_vars

C9_Witness ==
    /\ stopped[1] /\ lifePc[1] = "returned"
    /\ stopped[2] /\ lifePc[2] = "failed"

\* C10: the delivered records are a prefix of the records in arrival order
\* (none twice, none skipped), and nothing is delivered once the drain
\* thread has terminated.
C10_DeliveredIsPrefixOfArrived ==
    /\ [](\A b \in Bridges :
            /\ Len(delivered[b]) <= Len(arrived[b])
            /\ delivered[b] = SubSeq(arrived[b], 1, Len(delivered[b])))
    /\ [][\A b \in Bridges :
            ~DrainLive(b) => delivered'[b] = delivered[b]]_vars

C10_Witness ==
    /\ drainPc[1] = "STOPPED"
    /\ Len(delivered[1]) >= 2
    /\ queue[1] # <<>>

\* C11: with a callback that returns and a fairly scheduled drain thread,
\* every record pushed on the channel is eventually delivered unless destroy
\* is called (only destroy sets the flag of the installed bridge): again and
\* again, every record that has arrived so far has been delivered.
AllDelivered == logger # 0 => (stopped[logger] \/ delivered[logger] = arrived[logger])

C11_EventualDelivery == []<>AllDelivered

C11_Witness ==
    /\ ~stopped[1]
    /\ Len(arrived[1]) = MaxLogs + 1
    /\ delivered[1] = arrived[1]

\* C12: once the callback has panicked the drain thread is terminated
\* abnormally and destroy of that handle never returns normally: it ends in
\* the abort, at the send or at the join.
C12_CallbackPanicPropagates ==
    /\ [](\A b \in Bridges : drainPc[b] = "PANICKED" => lifePc[b] # "returned")
    /\ [][\A b \in Bridges :
            drainPc[b] = "PANICKED"
                => /\ drainPc'[b] = "PANICKED"
                   /\ lifePc'[b] # "returned"
                   /\ lifePc[b] \in {"send", "join"} => lifePc'[b] \in {lifePc[b], "aborted"}]_vars

C12_Witness ==
    /\ drainPc[1] = "PANICKED"
    /\ lifePc[1] = "aborted"
    /\ procAborted

\* C13: a create made while a logger is installed returns an error and no
\* handle; the thread it spawned reaches STOPPED, its callback is never
\* invoked, and the step changes nothing of the installed bridge.
RejectedThreadsStopped ==
    \A b \in Bridges : lifePc[b] = "failed" => drainPc[b] = "STOPPED"

C13_DoubleRegistrationFails ==
    /\ [](\A b \in Bridges :
            lifePc[b] = "failed" => (logger # b /\ delivered[b] = <<>> /\ arrived[b] = <<>>))
    /\ [][\A b \in Bridges :
            /\ (logger # 0 /\ Create(b))
                  => /\ lifePc'[b] = "failed"
                     /\ logger' = logger
                     /\ stopped'[logger] = stopped[logger]
                     /\ queue'[logger] = queue[logger]
                     /\ drainPc'[logger] = drainPc[logger]
                     /\ delivered'[logger] = delivered[logger]
            /\ lifePc[b] = "failed" => lifePc'[b] = "failed"]_vars
    /\ []<>(procAborted \/ RejectedThreadsStopped)

C13_Witness ==
    /\ lifePc[1] = "live"
    /\ lifePc[2] = "failed"
    /\ drainPc[2] = "STOPPED"
    /\ drainPc[1] = "incallback"

\* Positions of delivered whose record came from the given threads.
DeliveredFrom(b, srcs) == {i \in 1..Len(delivered[b]) : delivered[b][i].src \in srcs}

\* C14 (as stated): the callback is invoked at most once per log call the
\* application made; with no application log call there is no invocation.
C14_OnlyApplicationRecords ==
    \A b \in Bridges : Len(delivered[b]) <= TotalIssued

\* C14 (amended): besides the records of the application's log calls the
\* callback receives at most one more record, the one init itself logs.
C14_ApplicationRecordsPlusInit ==
    \A b \in Bridges :
        /\ Cardinality(DeliveredFrom(b, Producers)) <= TotalIssued
        /\ Cardinality(DeliveredFrom(b, {InitSrc})) <= 1
        /\ Len(delivered[b]) <= TotalIssued + 1

C14_Witness ==
    /\ lifePc[1] = "returned"
    /\ TotalIssued = 0
    /\ Len(delivered[1]) = 1

\* Pointwise substitution of the placeholder for the terminator byte.
Substituted(s) == [i \in 1..Len(s) |-> IF s[i] = Nul THEN QMark ELSE s[i]]

\* out has the length of in, holds no terminator, has '?' where in has a
\* terminator and equals in elsewhere.
IsSanitized(out, in) ==
    /\ Len(out) = Len(in)
    /\ \A i \in 1..Len(in) :
        /\ out[i] # Nul
        /\ in[i] = Nul => out[i] = QMark
        /\ in[i] # Nul => out[i] = in[i]

Encoded == encOut # <<>>
RenderedMessage == FormatMessage(encIn.line, encIn.file, encIn.args)

\* The message half of C15: present and sanitized.
MessageSanitized ==
    Encoded =>
        /\ Len(encOut[1].message) = 1
        /\ IsSanitized(encOut[1].message[1], RenderedMessage)

\* C15 (as stated): for every module path and every rendered message, with
\* terminator bytes anywhere, the tag and the message of the LogRecord are
\* both present, as long as the input, free of terminators, and equal to the
\* input with each terminator replaced by '?'.
C15_TagAndMessageSanitized ==
    /\ MessageSanitized
    /\ (Encoded /\ encIn.mp # <<>>) =>
        /\ Len(encOut[1].tag) = 1
        /\ IsSanitized(encOut[1].tag[1], encIn.mp[1])

\* C15 (amended): the message is always present, as long as the rendered
\* message, free of terminators and equal to it with each terminator replaced
\* by '?'.  The tag is not sanitized: it is the module path unchanged when
\* the module path holds no terminator, and absent when it holds one (or
\* when there is no module path).  Neither ever holds a terminator.
C15_MessageSanitizedTagDropped ==
    /\ MessageSanitized
    /\ Encoded =>
        /\ (encIn.mp # <<>> /\ ~HasNul(encIn.mp[1])) => encOut[1].tag = encIn.mp
        /\ (encIn.mp = <<>> \/ HasNul(encIn.mp[1])) => encOut[1].tag = <<>>
        /\ encOut[1].tag # <<>> => ~HasNul(encOut[1].tag[1])

\* A module path with a terminator and args with two terminators: the tag
\* is absent, the message has two placeholders.
C15_Witness ==
    /\ Encoded
    /\ encIn.mp # <<>> /\ HasNul(encIn.mp[1])
    /\ encIn.args = <<Nul, Nul>>
    /\ encIn.file = <<>>
    /\ encOut[1].tag = <<>>
    /\ encOut[1].message = << <<QMark, QMark>> >>

\* The text the message is specified to carry.
ExpectedMessage ==
    IF encIn.file = <<>> THEN encIn.args
    ELSE IF encIn.line = <<>>
         THEN encIn.file[1] \o <<Colon, Space>> \o encIn.args
         ELSE encIn.file[1] \o <<AtSign>> \o Decimal(encIn.line[1])
                  \o <<Colon, Space>> \o encIn.args

\* C16: for every combination of file and line present or absent, the
\* message is "<file>@<line>: <args>" when both are known, "<file>: <args>"
\* when only the file is known and exactly "<args>" when the file is unknown,
\* a known line without a file included.  (The record carries the text after
\* sanitization; for texts without terminators it is the text itself.)
C16_MessageConstruction ==
    Encoded =>
        /\ encOut[1].message = <<Substituted(ExpectedMessage)>>
        /\ ~HasNul(ExpectedMessage) => encOut[1].message = <<ExpectedMessage>>
        /\ encOut[1].level = LevelFrom(encIn.level)

\* A line is known and the file is not: the message is exactly the args.
C16_Witness ==
    /\ Encoded
    /\ encIn.line = <<10>> /\ encIn.file = <<>>
    /\ encIn.args = <<97, 97>>
    /\ encOut[1].message = << <<97, 97>> >>

\* No callback has panicked.
NoCallbackPanic == \A b \in Bridges : drainPc[b] # "PANICKED"

\* C17: provided the callback never panics, destroy never fails while
\* records are in flight: in every interleaving the send of the shutdown
\* notification succeeds and the join returns normally, so destroy never
\* ends in a panic (which abort_on_panic turns into a process abort).
C17_DestroyNeverFails ==
    NoCallbackPanic => (~procAborted /\ \A b \in Bridges : lifePc[b] # "aborted")

\* C18: whenever the drain thread of the installed bridge has terminated,
\* for whatever reason, the shared shutdown flag is true, so that no Sink
\* passes its flag check while the queue has no consumer.
C18_TerminatedImpliesFlag ==
    logger # 0 =>
        (drainPc[logger] \in {"STOPPED", "PANICKED"} => stopped[logger])

\* Callback invocations in progress.
InCallback == {b \in Bridges : drainPc[b] = "incallback"}

\* C19: callback invocations are serialized and made only by the drain
\* thread: at most one invocation is in progress in any state; an invocation
\* starts only in the drain thread's call step (never in log, enabled, flush,
\* init, stop or destroy); each invocation is for exactly one record, the one
\* the drain thread dequeued, and there are never more invocations than
\* dequeued records.
C19_SerializedDrainOnly ==
    /\ [](Cardinality(InCallback) <= 1)
    /\ [](\A b \in Bridges : Len(delivered[b]) <= Dequeued(b))
    /\ [][\A b \in Bridges :
            /\ delivered'[b] # delivered[b] =>
                /\ DrainInvoke(b)
                /\ Len(drainRec[b]) = 1
                /\ delivered'[b] = Append(delivered[b], drainRec[b][1])
            /\ (drainPc'[b] = "incallback" /\ drainPc[b] # "incallback") =>
                DrainInvoke(b)]_vars

\* A callback is running while a producer is inside log and destroy is
\* between its flag store and its send.
C19_Witness ==
    /\ drainPc[1] = "incallback"
    /\ \E p \in Producers : prodPc[p] = "send"
    /\ lifePc[1] = "send"

\* Some bridge has been created and destroyed.
SomeDestroyed == \E c \in Bridges : lifePc[c] = "returned"

\* C20: logging cannot be restarted in a process: once installed the
\* process-wide logger never changes; after a bridge has been created and
\* destroyed it is still that bridge's Sink with its flag set, so every later
\* create fails and every later log call is dropped; at no time has a second
\* callback received a record.
C20_NoRestart ==
    /\ [][logger # 0 => logger' = logger]_vars
    /\ [](\A b \in Bridges : lifePc[b] = "returned" => (logger = b /\ stopped[b]))
    /\ [][\A b \in Bridges : (SomeDestroyed /\ Create(b)) => lifePc'[b] = "failed"]_vars
    /\ [][\A p \in Producers : (SomeDestroyed /\ LogCall(p)) =>
            (prodPc'[p] = "idle" /\ queue' = queue /\ arrived' = arrived)]_vars
    /\ [](Cardinality({b \in Bridges : delivered[b] # <<>>}) <= 1)

\* After the first bridge was destroyed, a second create has failed and a
\* log call has been dropped; only the first callback ever got a record.
C20_Witness ==
    /\ lifePc[1] = "returned"
    /\ lifePc[2] = "failed"
    /\ DroppedCalls >= 1
    /\ delivered[1] # <<>>
    /\ delivered[2] = <<>>

====
